---- MODULE Spec2Model ----
(***************************************************************************)
(* State-machine model of the R2 backup path of openclaw-cloudflare:       *)
(*   waitForProcess   (gateway/utils, src/unnamed/part_001:144-162)        *)
(*   probeMount, lazyUnmountR2, isMountPathInUseError, mountR2Storage      *)
(*                    (gateway/r2,    src/unnamed/part_001:11-131)         *)
(*   checkForActiveRsync, ensureRsyncSuccess, bestEffortKill, syncToR2     *)
(*                    (src/src/gateway/sync.ts:204-581, the final draft)   *)
(* One invocation of syncToR2 runs against a sandbox whose process status, *)
(* captured logs, process list and mount primitive are chosen by the       *)
(* environment.  Every await of the code is a step of the model.           *)
(***************************************************************************)
EXTENDS Integers, Sequences, FiniteSets, TLC

(***************************************************************************)
(* Bounds of the model.                                                    *)
(***************************************************************************)
\* cap on the polls of one waitForProcess call inside syncToR2
MaxPolls == 1
\* cap on the iterations of the verify log-poll loop
MaxLogPolls == 2
\* largest process list returned by listProcesses (foreign entries)
MaxListed == 1
\* largest timeoutMs / pollIntervalMs given to a bare waitForProcess call
MaxTimeoutMs == 5
MaxPollMs == 3
MaxEvents == 62

(***************************************************************************)
(* Program constants.                                                      *)
(***************************************************************************)
DEFAULT_SYNC_TIMEOUT_MS == 600000
DEFAULT_POLL_INTERVAL_MS == 500
PROBE_TIMEOUT_MS == 5000
FAST_POLL_INTERVAL_MS == 200
VERIFY_TIMEOUT_MS == 10000
VERIFY_LOG_POLLS == 50
TIMESTAMP_TIMEOUT_MS == 15000

(***************************************************************************)
(* Text.  A captured stdout is a sequence of one-character strings, so     *)
(* that trim(), split(), startsWith() and the date regex are computed.     *)
(***************************************************************************)
Digits == {"0", "1", "2", "3", "4", "5", "6", "7", "8", "9"}
WhiteSpace == {" ", "\n", "\t"}

RECURSIVE TrimStart(_)
TrimStart(s) ==
    IF s # <<>> /\ Head(s) \in WhiteSpace THEN TrimStart(Tail(s)) ELSE s

RECURSIVE TrimEnd(_)
TrimEnd(s) ==
    IF s # <<>> /\ s[Len(s)] \in WhiteSpace
    THEN TrimEnd(SubSeq(s, 1, Len(s) - 1))
    ELSE s

\* String.prototype.trim
Trim(s) == TrimEnd(TrimStart(s))

RECURSIVE TakeToken(_)
TakeToken(s) ==
    IF s = <<>> \/ Head(s) \in WhiteSpace THEN <<>>
    ELSE <<Head(s)>> \o TakeToken(Tail(s))

\* s.trim().split(/\s+/)[0] || ''
FirstToken(s) == TakeToken(Trim(s))

\* String.prototype.startsWith
StartsWith(s, p) == Len(s) >= Len(p) /\ SubSeq(s, 1, Len(p)) = p

Fuse == <<"f", "u", "s", "e">>
ErrSentinel == <<"_", "_", "E", "R", "R", "_", "_">>
MissingSentinel == <<"_", "_", "M", "I", "S", "S", "I", "N", "G", "_", "_">>

\* what `stat -f -c %T <mount> || echo __ERR__` can print
FsFuseS3fs == <<"f", "u", "s", "e", ".", "s", "3", "f", "s", "\n">>
FsExt4 == <<"e", "x", "t", "4", "\n">>
FsErr == ErrSentinel \o <<"\n">>
ProbeOutputs == {FsFuseS3fs, FsExt4, FsErr, <<>>}

\* contents of <mount>/.last-sync
MarkerOld == <<"2", "0", "2", "6", "-", "0", "1", "-", "2", "6", "T", "\n">>
MarkerNew == <<"2", "0", "2", "6", "-", "0", "1", "-", "2", "7", "T", "\n">>
MarkerBad == <<"T", "u", "e", " ", "2", "7", "\n">>
NoMarker == <<>>
InitialMarkers == {NoMarker, MarkerOld, MarkerBad}

\* a shape check that accepts any text
MatchesDateRegex_AnyText(s) == TRUE

\* lastSync.match(/^\d{4}-\d{2}-\d{2}/)
MatchesDateRegex(s) ==
    /\ Len(s) >= 10
    /\ \A i \in {1, 2, 3, 4, 6, 7, 9, 10} : s[i] \in Digits
    /\ s[5] = "-"
    /\ s[8] = "-"

\* out && out !== '__MISSING__' ? out : undefined   (<<>> is undefined)
LastSyncOf(out) == IF out # <<>> /\ out # MissingSentinel THEN out ELSE <<>>

(***************************************************************************)
(* Processes of the sandbox.                                               *)
(***************************************************************************)
ActiveStatuses == {"starting", "running"}
SettledStatuses == {"completed", "failed", "error"}

\* a loop condition that takes only 'running' for active
IsActive_RunningOnly(status) == status = "running"

\* waitForProcess's loop condition on the status
IsActive(status) == status = "starting" \/ status = "running"

CopyKinds == {"openclaw", "workspace", "skills"}
ReplicationKinds == CopyKinds \cup {"write", "read"}
ProcessKinds ==
    {"probe", "unmount", "verify", "diag"} \cup ReplicationKinds

\* exitCode is <<>> when the handle carries no number, <<n>> otherwise
NoExit == <<>>

\* how a process can have settled.  The exit code is drawn for the handles
\* whose exit code is read (the copy passes) or recorded (the marker write,
\* a bare handle); the code never reads it on the others.
SettledOutcomes(kind) ==
    IF kind \in CopyKinds \cup {"write", "handle"}
    THEN {[status |-> "completed", exitCode |-> e] : e \in {NoExit, <<0>>, <<1>>}}
         \cup {[status |-> "failed", exitCode |-> e] : e \in {NoExit, <<1>>}}
         \cup {[status |-> "error", exitCode |-> NoExit]}
    ELSE {[status |-> s, exitCode |-> NoExit] : s \in SettledStatuses}
ActiveOutcomes == {[status |-> s, exitCode |-> NoExit] : s \in ActiveStatuses}

NoProc ==
    [kind |-> "none", status |-> "none", exitCode |-> NoExit, out |-> <<>>]

\* a handle as startProcess resolves it
NewProcs(kind, out) ==
    {[kind |-> kind, status |-> o.status, exitCode |-> o.exitCode,
      out |-> out] : o \in ActiveOutcomes \cup SettledOutcomes(kind)}

\* the copy passes with the first two exchanged
StageKind_WorkspaceFirst(stage) ==
    CASE stage = 1 -> "workspace"
      [] stage = 2 -> "openclaw"
      [] OTHER -> "skills"

\* the rsync copy passes in their order
StageKind(stage) ==
    CASE stage = 1 -> "openclaw"
      [] stage = 2 -> "workspace"
      [] OTHER -> "skills"

(***************************************************************************)
(* SyncResult.  An absent lastSync is <<>>, an absent error or details is  *)
(* the string "absent".                                                    *)
(***************************************************************************)
Absent == "absent"
ErrNotConfigured == "R2 storage is not configured"
ErrMountFailed == "Failed to mount R2 storage"
ErrSourceMissing == "Sync aborted: source missing openclaw.json"
ErrWorkspaceEmpty == "Sync aborted: local workspace appears empty"
ErrVerifyFailed == "Failed to verify source files"
ErrSyncFailed == "Sync failed"
ErrSyncError == "Sync error"
SkippedDetails == "Skipped: another rsync appears to be running"

Failure(error, details) ==
    [success |-> FALSE, lastSync |-> <<>>, error |-> error, details |-> details]
ResNotConfigured == Failure(ErrNotConfigured, Absent)
ResMountFailed == Failure(ErrMountFailed, Absent)
ResSourceMissing ==
    Failure(ErrSourceMissing, "The local config directory is missing critical files.")
ResWorkspaceEmpty ==
    Failure(ErrWorkspaceEmpty, "The workspace directory is empty, but an existing workspace backup was found in R2.")
ResVerifyFailed == Failure(ErrVerifyFailed, "<error message>")
ResRsyncFailed == Failure(ErrSyncFailed, "<captured rsync output>")
ResMarkerUnverified == Failure(ErrSyncFailed, "<rsync output and diagnostics>")
\* a catch that reports the thrown message as the error
ResSyncError_MessageAsError == Failure("<error message>", "<error message>")
ResSyncError == Failure(ErrSyncError, "<error message>")
ResSkipped ==
    [success |-> TRUE, lastSync |-> <<>>, error |-> Absent, details |-> SkippedDetails]
ResSuccess(lastSync) ==
    [success |-> TRUE, lastSync |-> lastSync, error |-> Absent, details |-> Absent]
NoResult == Failure(Absent, Absent)

(***************************************************************************)
(* Pure parts of the code.                                                 *)
(***************************************************************************)
Credentials == {"R2_ACCESS_KEY_ID", "R2_SECRET_ACCESS_KEY", "CF_ACCOUNT_ID"}

\* a gate that does not look at the account id
IsConfigured_TwoKeys(e) == e["R2_ACCESS_KEY_ID"] /\ e["R2_SECRET_ACCESS_KEY"]

\* !(!env.R2_ACCESS_KEY_ID || !env.R2_SECRET_ACCESS_KEY || !env.CF_ACCOUNT_ID)
IsConfigured(e) ==
    e["R2_ACCESS_KEY_ID"] /\ e["R2_SECRET_ACCESS_KEY"] /\ e["CF_ACCOUNT_ID"]

CeilDiv(a, b) == (a + b - 1) \div b
Min(a, b) == IF a <= b THEN a ELSE b

\* the attempts rounded down
MaxAttemptsOf_Floor(timeout, interval) == timeout \div interval

\* const maxAttempts = Math.ceil(timeoutMs / pollIntervalMs)
MaxAttemptsOf(timeout, interval) == CeilDiv(timeout, interval)

\* a reading that takes every type for mounted
ProbeState_AnyTypeMounted(out) ==
    IF FirstToken(out) = <<>> THEN "not_mounted" ELSE "mounted"

\* a reading that takes only the bare type 'fuse' for mounted
ProbeState_ExactFuse(out) ==
    IF FirstToken(out) = Fuse THEN "mounted" ELSE "not_mounted"

\* probeMount's reading of the captured stdout
ProbeState(out) ==
    LET fsType == FirstToken(out) IN
    IF fsType = <<>> \/ fsType = ErrSentinel THEN "not_mounted"
    ELSE IF StartsWith(fsType, Fuse) THEN "mounted"
    ELSE "not_mounted"

\* an error message of mountBucket, as the set of the fragments it holds
MountErrorFragments == {"InvalidMountConfigError", "Mount path", "already in use"}
MountErrors == SUBSET MountErrorFragments

\* a signature test that takes any of the three fragments for the signature
isMountPathInUseError_AnyFragment(msg) == msg # {}

\* a signature test that never matches
isMountPathInUseError_Never(msg) == FALSE

isMountPathInUseError(msg) ==
    /\ "InvalidMountConfigError" \in msg
    /\ "Mount path" \in msg
    /\ "already in use" \in msg

\* a predicate that takes only 'running' for active
IsActiveRsync_RunningOnly(p) == p.status = "running" /\ p.rsync /\ p.mountPath

\* a predicate that does not look at the status
IsActiveRsync_AnyStatus(p) == p.rsync /\ p.mountPath

\* the predicate of processes.find(...) in checkForActiveRsync
IsActiveRsync(p) ==
    /\ (p.status = "starting" \/ p.status = "running")
    /\ p.rsync
    /\ p.mountPath

\* a search that wants every listed process to be an active rsync
checkForActiveRsync_EveryEntry(list) ==
    list # {} /\ \A p \in list : IsActiveRsync(p)

checkForActiveRsync(list) == \E p \in list : IsActiveRsync(p)

\* a success check that never fails, and one that reads the status alone
ensureRsyncSuccess_NeverFails(p) == FALSE
\* a success check that takes the status 'error' for a failure as well
ensureRsyncSuccess_ErrorFails(p) ==
    p.status \in {"failed", "error"} \/ (p.exitCode # NoExit /\ p.exitCode[1] # 0)
ensureRsyncSuccess_StatusOnly(p) == p.status = "failed"

\* ensureRsyncSuccess returns a failure result
ensureRsyncSuccess(p) ==
    p.status = "failed" \/ (p.exitCode # NoExit /\ p.exitCode[1] # 0)

\* the lines the verify command prints, from the state of the file system
VerifyOutput(f) ==
    << IF f.configExists THEN "__OK__" ELSE "__MISSING__",
       IF f.localNonEmpty THEN "__WORKSPACE_LOCAL_NONEMPTY__"
                          ELSE "__WORKSPACE_LOCAL_EMPTY__",
       IF f.remoteNonEmpty THEN "__WORKSPACE_REMOTE_NONEMPTY__"
                           ELSE "__WORKSPACE_REMOTE_EMPTY__" >>

\* stdout.includes(line), stdout held as its lines
Includes(lines, line) == \E i \in 1..Len(lines) : lines[i] = line

\* the break condition of the log-poll loop
HasSentinel(lines) == Includes(lines, "__OK__") \/ Includes(lines, "__MISSING__")

\* the checks on the captured verify stdout without the one on __MISSING__
PreflightVerdict_NoMissingCheck(lines) ==
    IF /\ Includes(lines, "__WORKSPACE_REMOTE_NONEMPTY__")
       /\ Includes(lines, "__WORKSPACE_LOCAL_EMPTY__")
    THEN "workspace_empty"
    ELSE IF ~Includes(lines, "__OK__") /\ ~Includes(lines, "__MISSING__")
    THEN "unverified"
    ELSE "ok"

\* checks that let a stdout without sentinel pass
PreflightVerdict_UnverifiedPasses(lines) ==
    IF Includes(lines, "__MISSING__") THEN "missing"
    ELSE IF /\ Includes(lines, "__WORKSPACE_REMOTE_NONEMPTY__")
            /\ Includes(lines, "__WORKSPACE_LOCAL_EMPTY__")
    THEN "workspace_empty"
    ELSE "ok"

\* the checks of syncToR2 on the captured verify stdout, in their order
PreflightVerdict(lines) ==
    IF Includes(lines, "__MISSING__") THEN "missing"
    ELSE IF /\ Includes(lines, "__WORKSPACE_REMOTE_NONEMPTY__")
            /\ Includes(lines, "__WORKSPACE_LOCAL_EMPTY__")
    THEN "workspace_empty"
    ELSE IF ~Includes(lines, "__OK__") THEN "unverified"
    ELSE "ok"

\* what the marker read prints: the file, or __MISSING__ after 40 tries
ReadOutput(m) == IF m = NoMarker THEN MissingSentinel \o <<"\n">> ELSE m

\* the entries a process list can hold: a status, and whether the command
\* includes 'rsync' and includes R2_MOUNT_PATH
ListEntries ==
    [status : ActiveStatuses \cup SettledStatuses, rsync : BOOLEAN,
     mountPath : BOOLEAN]

(***************************************************************************)
(* State.                                                                  *)
(*   env, fs, marker   the worker's bindings, the local and remote trees,  *)
(*                     the content of <mount>/.last-sync                   *)
(*   pc                the await the invocation stands at                  *)
(*   attempt           1 up to the first mountBucket failure, 2 after it   *)
(*   stage             the copy pass (1..3)                                *)
(*   proc              the handle the code holds                           *)
(*   timeoutMs, pollIntervalMs, maxAttempts, attempts                      *)
(*                     parameters and locals of waitForProcess             *)
(*   processes         the list listProcesses resolved                     *)
(*   stdout, polls     the stdout getLogs delivered last, and the counter  *)
(*                     of the verify log-poll loop                         *)
(*   calls             history of the calls made on the sandbox            *)
(*   result            the SyncResult returned                             *)
(***************************************************************************)
VARIABLES env, fs, marker, pc, attempt, stage, proc, timeoutMs,
          pollIntervalMs, maxAttempts, attempts, processes, stdout, polls,
          calls, result, events, console

vars == <<env, fs, marker, pc, attempt, stage, proc, timeoutMs,
          pollIntervalMs, maxAttempts, attempts, processes, stdout, polls,
          calls, result, events, console>>

\* the run's log: the events of createSyncLogger and the lines written with
\* console.log.  syncToR2 only writes them, so the steps of the run are
\* modelled apart from the log, and the log apart from the steps
logVars == <<events, console>>

WaitSites ==
    {"probe_wait", "unmount_wait", "verify_wait", "copy_wait", "write_wait",
     "read_wait", "diag_wait", "wait"}

\* where the code goes on when waitForProcess resolves
OnResolve(at) ==
    CASE at = "probe_wait" -> "probe_logs"
      [] at = "unmount_wait" -> "mount"
      [] at = "verify_wait" -> "verify_poll"
      [] at = "copy_wait" -> "copy_check"
      [] at = "write_wait" -> "read_start"
      [] at = "read_wait" -> "read_logs"
      [] at = "diag_wait" -> "diag_logs"
      [] OTHER -> "wait_resolved"

\* continuations that mount right after an unresponsive probe, and that
\* leave a timed-out copy pass without the kill
OnTimeout_ProbeToMount(at) ==
    CASE at \in {"probe_wait", "unmount_wait"} -> "mount"
      [] at \in {"verify_wait"} -> "verify_poll"
      [] at = "copy_wait" -> "copy_timeout"
      [] at \in {"write_wait", "read_wait"} -> "sync_error"
      [] at = "diag_wait" -> "diag_logs"
      [] OTHER -> "wait_rejected"
OnTimeout_CopyNoKill(at) ==
    CASE at = "probe_wait" -> "unmount"
      [] at = "unmount_wait" -> "mount"
      [] at = "verify_wait" -> "verify_poll"
      [] at \in {"copy_wait", "write_wait", "read_wait"} -> "sync_error"
      [] at = "diag_wait" -> "diag_logs"
      [] OTHER -> "wait_rejected"

\* where the code goes on when waitForProcess rejects
OnTimeout(at) ==
    CASE at = "probe_wait" -> "unmount"
      [] at = "unmount_wait" -> "mount"
      [] at = "verify_wait" -> "verify_poll"
      [] at = "copy_wait" -> "copy_timeout"
      [] at = "write_wait" -> "sync_error"
      [] at = "read_wait" -> "sync_error"
      [] at = "diag_wait" -> "diag_logs"
      [] OTHER -> "wait_rejected"

\* an entry of the history: the call, and how it ended
Call(op, res) == [op |-> op, res |-> res]

\* how the end of a wait enters the history:
\*   a probe          "unresponsive" on a timeout (its state follows the logs)
\*   an unmount       "returned", its wait being best effort
\*   a copy, a write  "timeout", or "failed" when the handle settled with
\*                    status 'failed' or an exit code other than 0, else "settled"
\*   the others       "timeout" or "settled"
WaitOutcome(p) ==
    IF p.kind = "unmount" THEN "returned"
    ELSE IF p.status \in ActiveStatuses
    THEN (IF p.kind = "probe" THEN "unresponsive" ELSE "timeout")
    ELSE IF /\ p.kind \in CopyKinds \cup {"write"}
            /\ (p.status = "failed" \/ p.exitCode \notin {NoExit, <<0>>})
    THEN "failed"
    ELSE "settled"

SetLastRes(c, res) ==
    IF c = <<>> THEN c ELSE [c EXCEPT ![Len(c)].res = res]

\* entry of waitForProcess, its loop capped at MaxPolls polls
BeginWait(timeout, interval) ==
    /\ timeoutMs' = timeout
    /\ pollIntervalMs' = interval
    /\ maxAttempts' = Min(MaxAttemptsOf(timeout, interval), MaxPolls)
    /\ attempts' = 0

\* waitForProcess's locals are gone
EndWait ==
    /\ timeoutMs' = 0
    /\ pollIntervalMs' = 0
    /\ maxAttempts' = 0
    /\ attempts' = 0

\* the locals of the callee are gone, the caller goes on at `at`
Goto(at) ==
    /\ pc' = at
    /\ result' = result
    /\ proc' = NoProc
    /\ stdout' = <<>>
    /\ polls' = 0
    /\ EndWait

\* return withBundle(r)
Finish(r) ==
    /\ pc' = "done"
    /\ result' = r
    /\ proc' = NoProc
    /\ stdout' = <<>>
    /\ polls' = 0
    /\ EndWait

\* the promise of syncToR2 rejects
Throw ==
    /\ pc' = "thrown"
    /\ result' = result
    /\ proc' = NoProc
    /\ stdout' = <<>>
    /\ polls' = 0
    /\ EndWait

\* startProcess resolved with handle p: waitForProcess(p, timeout, interval)
Await(p, at, timeout, interval) ==
    /\ proc' = p
    /\ calls' = Append(calls, Call(p.kind, "pending"))
    /\ BeginWait(timeout, interval)
    /\ pc' = at
    /\ UNCHANGED <<result, stdout, polls>>

Init ==
    /\ env \in [Credentials -> BOOLEAN]
    /\ fs \in [configExists : BOOLEAN, localNonEmpty : BOOLEAN,
               remoteNonEmpty : BOOLEAN]
    /\ marker \in InitialMarkers
    /\ pc = "start"
    /\ attempt = 0
    /\ stage = 0
    /\ proc = NoProc
    /\ timeoutMs = 0
    /\ pollIntervalMs = 0
    /\ maxAttempts = 0
    /\ attempts = 0
    /\ processes = {}
    /\ stdout = <<>>
    /\ polls = 0
    /\ calls = <<>>
    /\ result = NoResult
    /\ events = <<>>
    /\ console = <<>>

(***************************************************************************)
(* waitForProcess and the sandbox's progress on the awaited process.       *)
(***************************************************************************)
\* a poll that does not count its attempt
WaitPoll_NoCount ==
    /\ pc \in WaitSites
    /\ IsActive(proc.status) /\ attempts < maxAttempts
    /\ UNCHANGED vars

\* one pass of the loop body: the sleep has elapsed, attempts++
WaitPoll ==
    /\ pc \in WaitSites
    /\ IsActive(proc.status) /\ attempts < maxAttempts
    /\ attempts' = attempts + 1
    /\ UNCHANGED <<env, fs, marker, pc, attempt, stage, proc, timeoutMs,
                   pollIntervalMs, maxAttempts, processes, stdout, polls,
                   calls, result>>
    /\ UNCHANGED logVars

\* the loop is left: the wait resolves, or rejects with the timeout.  The
\* locals are gone when a caller goes on; a bare call keeps their last values.
WaitReturn ==
    /\ pc \in WaitSites
    /\ ~(IsActive(proc.status) /\ attempts < maxAttempts)
    /\ pc' = IF IsActive(proc.status) THEN OnTimeout(pc) ELSE OnResolve(pc)
    /\ calls' = SetLastRes(calls, WaitOutcome(proc))
    /\ IF pc = "wait"
       THEN UNCHANGED <<timeoutMs, pollIntervalMs, maxAttempts, attempts>>
       ELSE EndWait
    /\ UNCHANGED <<env, fs, marker, attempt, stage, proc, processes, stdout,
                   polls, result>>
    /\ UNCHANGED logVars

\* the sandbox moves the awaited process on: starting -> running -> settled
ProcStep ==
    /\ pc \in WaitSites
    /\ proc.status \in ActiveStatuses
    /\ \E o \in (IF proc.status = "starting"
                 THEN {[status |-> "running", exitCode |-> NoExit]}
                 ELSE {}) \cup SettledOutcomes(proc.kind) :
          proc' = [proc EXCEPT !.status = o.status, !.exitCode = o.exitCode]
    /\ UNCHANGED <<env, fs, marker, pc, attempt, stage, timeoutMs,
                   pollIntervalMs, maxAttempts, attempts, processes, stdout,
                   polls, calls, result>>
    /\ UNCHANGED logVars

(***************************************************************************)
(* syncToR2: the configuration gate, then mountR2Storage.                  *)
(***************************************************************************)
ConfigGate ==
    /\ pc = "start"
    /\ IF IsConfigured(env)
       THEN Goto("probe") /\ attempt' = 1
       ELSE Finish(ResNotConfigured) /\ attempt' = attempt
    /\ UNCHANGED <<env, fs, marker, stage, processes, calls>>
    /\ UNCHANGED logVars

\* probeMount: startProcess(stat -f ...), then waitForProcess(proc, 5000, 200);
\* a rejection of startProcess leaves mountR2Storage and syncToR2
ProbeStart ==
    /\ pc = "probe"
    /\ \/ \E out \in ProbeOutputs : \E p \in NewProcs("probe", out) :
            Await(p, "probe_wait", PROBE_TIMEOUT_MS, FAST_POLL_INTERVAL_MS)
       \/ /\ calls' = Append(calls, Call("probe", "rejected"))
          /\ Throw
    /\ UNCHANGED <<env, fs, marker, attempt, stage, processes>>
    /\ UNCHANGED logVars

\* probeMount after the wait resolved: proc.getLogs(), a rejection or a
\* lagging buffer giving the empty stdout
ProbeLogs ==
    /\ pc = "probe_logs"
    /\ \E got \in {proc.out, <<>>} : stdout' = got
    /\ pc' = "probe_result"
    /\ UNCHANGED <<env, fs, marker, attempt, stage, proc, timeoutMs,
                   pollIntervalMs, maxAttempts, attempts, processes, polls,
                   calls, result>>
    /\ UNCHANGED logVars

\* a branch that unmounts after a first probe that found no mount as well
ProbeResult_UnmountsWhenNotMounted ==
    /\ pc = "probe_result"
    /\ calls' = SetLastRes(calls, ProbeState(stdout))
    /\ IF ProbeState(stdout) = "mounted" THEN Goto("dedup")
       ELSE IF attempt = 1 THEN Goto("unmount")
       ELSE Finish(ResMountFailed)
    /\ UNCHANGED <<env, fs, marker, attempt, stage, processes>>
    /\ UNCHANGED logVars

\* probeMount returns the state; mountR2Storage branches on it
ProbeResult ==
    /\ pc = "probe_result"
    /\ calls' = SetLastRes(calls, ProbeState(stdout))
    /\ IF ProbeState(stdout) = "mounted" THEN Goto("dedup")
       ELSE IF attempt = 1 THEN Goto("mount")
       ELSE Finish(ResMountFailed)
    /\ UNCHANGED <<env, fs, marker, attempt, stage, processes>>
    /\ UNCHANGED logVars

\* lazyUnmountR2: startProcess(umount -l ...), then a best-effort wait
UnmountStart ==
    /\ pc = "unmount"
    /\ \/ \E p \in NewProcs("unmount", <<>>) :
            Await(p, "unmount_wait", PROBE_TIMEOUT_MS, FAST_POLL_INTERVAL_MS)
       \/ /\ calls' = Append(calls, Call("unmount", "rejected"))
          /\ Throw
    /\ UNCHANGED <<env, fs, marker, attempt, stage, processes>>
    /\ UNCHANGED logVars

\* a mount step that goes back to the probe after its second failure too
MountBucket_RetriesTwice ==
    /\ pc = "mount"
    /\ \/ /\ calls' = Append(calls, Call("mountBucket", "ok"))
          /\ Goto("dedup")
          /\ attempt' = attempt
       \/ \E msg \in MountErrors :
            /\ calls' = Append(calls, Call("mountBucket",
                   IF MountErrorFragments \subseteq msg THEN "inUse" ELSE "error"))
            /\ IF attempt <= 2 /\ isMountPathInUseError(msg)
               THEN Goto("probe") /\ attempt' = attempt + 1
               ELSE Finish(ResMountFailed) /\ attempt' = attempt
    /\ UNCHANGED <<env, fs, marker, stage, processes>>
    /\ UNCHANGED logVars

\* a mount step whose failure is not reported
MountBucket_IgnoresFailure ==
    /\ pc = "mount"
    /\ \E res \in {"ok", "inUse", "error"} :
          calls' = Append(calls, Call("mountBucket", res))
    /\ Goto("dedup")
    /\ UNCHANGED <<env, fs, marker, attempt, stage, processes>>
    /\ UNCHANGED logVars

\* sandbox.mountBucket(...) and the catch block of mountR2Storage
MountBucket ==
    /\ pc = "mount"
    /\ \/ /\ calls' = Append(calls, Call("mountBucket", "ok"))
          /\ Goto("dedup")
          /\ attempt' = attempt
       \/ \E msg \in MountErrors :
            /\ calls' = Append(calls, Call("mountBucket",
                   IF MountErrorFragments \subseteq msg THEN "inUse" ELSE "error"))
            /\ IF attempt = 1 /\ isMountPathInUseError(msg)
               THEN Goto("probe") /\ attempt' = 2
               ELSE Finish(ResMountFailed) /\ attempt' = attempt
    /\ UNCHANGED <<env, fs, marker, stage, processes>>
    /\ UNCHANGED logVars

(***************************************************************************)
(* syncToR2: the dedup check.                                              *)
(***************************************************************************)
\* the process lists of at most n entries
RECURSIVE ListsUpTo(_)
ListsUpTo(n) ==
    IF n = 0 THEN {{}}
    ELSE LET shorter == ListsUpTo(n - 1)
         IN shorter \cup {l \cup {e} : l \in shorter, e \in ListEntries}

ProcessLists == ListsUpTo(MaxListed)

\* a dedup step that gives the run up when listProcesses rejects
DedupList_RejectionAborts ==
    /\ pc = "dedup"
    /\ \/ /\ \E list \in ProcessLists :
               /\ processes' = list
               /\ calls' = Append(calls, Call("listProcesses", "ok"))
               /\ pc' = "dedup_find"
          /\ UNCHANGED <<proc, timeoutMs, pollIntervalMs, maxAttempts,
                         attempts, stdout, polls, result>>
       \/ /\ processes' = {}
          /\ calls' = Append(calls, Call("listProcesses", "rejected"))
          /\ Finish(ResSyncError)
    /\ UNCHANGED <<env, fs, marker, attempt, stage>>
    /\ UNCHANGED logVars

\* checkForActiveRsync: await sandbox.listProcesses(); a rejection is caught
\* and counts as "none found"
DedupList ==
    /\ pc = "dedup"
    /\ \/ \E list \in ProcessLists :
            /\ processes' = list
            /\ calls' = Append(calls, Call("listProcesses", "ok"))
            /\ pc' = "dedup_find"
       \/ /\ processes' = {}
          /\ calls' = Append(calls, Call("listProcesses", "rejected"))
          /\ pc' = "verify_start"
    /\ UNCHANGED <<env, fs, marker, attempt, stage, proc, timeoutMs,
                   pollIntervalMs, maxAttempts, attempts, stdout, polls,
                   result>>
    /\ UNCHANGED logVars

\* processes.find(...) and the skip of syncToR2; the list is dropped when the
\* run goes on
DedupFind ==
    /\ pc = "dedup_find"
    /\ IF checkForActiveRsync(processes)
       THEN Finish(ResSkipped) /\ processes' = processes
       ELSE Goto("verify_start") /\ processes' = {}
    /\ UNCHANGED <<env, fs, marker, attempt, stage, calls>>
    /\ UNCHANGED logVars

(***************************************************************************)
(* syncToR2: preflight verification.                                       *)
(***************************************************************************)
\* startProcess(verifyCmd), then waitForProcess(checkProc, 10_000, 200)
VerifyStart ==
    /\ pc = "verify_start"
    /\ \/ \E p \in NewProcs("verify", VerifyOutput(fs)) :
            Await(p, "verify_wait", VERIFY_TIMEOUT_MS, FAST_POLL_INTERVAL_MS)
       \/ /\ calls' = Append(calls, Call("verify", "rejected"))
          /\ Finish(ResVerifyFailed)
    /\ UNCHANGED <<env, fs, marker, attempt, stage, processes>>
    /\ UNCHANGED logVars

\* the bound of the log-poll loop
LogPollLimit == Min(VERIFY_LOG_POLLS, MaxLogPolls)

\* one pass of the log-poll loop: getLogs delivers the lines captured so
\* far (a prefix of the output), or rejects and counts as empty
VerifyPoll ==
    /\ pc = "verify_poll"
    /\ polls < LogPollLimit
    /\ ~HasSentinel(stdout)
    /\ \E n \in 0..Len(proc.out) : stdout' = SubSeq(proc.out, 1, n)
    /\ polls' = polls + 1
    /\ UNCHANGED <<env, fs, marker, pc, attempt, stage, proc, timeoutMs,
                   pollIntervalMs, maxAttempts, attempts, processes, calls,
                   result>>
    /\ UNCHANGED logVars

\* after the loop: the checks on the captured stdout
VerifyDecide ==
    /\ pc = "verify_poll"
    /\ (polls >= LogPollLimit \/ HasSentinel(stdout))
    /\ LET verdict == PreflightVerdict(stdout)
       IN IF verdict = "missing"
          THEN Finish(ResSourceMissing) /\ stage' = stage
          ELSE IF verdict = "workspace_empty"
          THEN Finish(ResWorkspaceEmpty) /\ stage' = stage
          ELSE IF verdict = "unverified"
          THEN Finish(ResVerifyFailed) /\ stage' = stage
          ELSE Goto("copy_start") /\ stage' = 1
    /\ UNCHANGED <<env, fs, marker, attempt, processes, calls>>
    /\ UNCHANGED logVars

(***************************************************************************)
(* syncToR2: the three copy passes.                                        *)
(***************************************************************************)
\* startProcess(rsync ...), then waitForProcess(proc, DEFAULT_SYNC_TIMEOUT_MS)
CopyStart ==
    /\ pc = "copy_start"
    /\ \/ \E p \in NewProcs(StageKind(stage), <<>>) :
            Await(p, "copy_wait", DEFAULT_SYNC_TIMEOUT_MS, DEFAULT_POLL_INTERVAL_MS)
       \/ /\ calls' = Append(calls, Call(StageKind(stage), "rejected"))
          /\ Finish(ResSyncError)
    /\ UNCHANGED <<env, fs, marker, attempt, stage, processes>>
    /\ UNCHANGED logVars

\* the wait rejected: bestEffortKill, rethrow, the outer catch.  The entry
\* "kill" of the history ends "absent" when the handle has no kill method
\* and nothing is called, "ok" or "rejected" when kill() is awaited.
CopyTimeout ==
    /\ pc = "copy_timeout"
    /\ \E hasKill \in BOOLEAN :
          IF hasKill
          THEN \E res \in {"ok", "rejected"} :
                  calls' = Append(calls, Call("kill", res))
          ELSE calls' = Append(calls, Call("kill", "absent"))
    /\ Finish(ResSyncError)
    /\ UNCHANGED <<env, fs, marker, attempt, stage, processes>>
    /\ UNCHANGED logVars

\* ensureRsyncSuccess and the start of the next stage
CopyCheck ==
    /\ pc = "copy_check"
    /\ IF ensureRsyncSuccess(proc)
       THEN Finish(ResRsyncFailed) /\ stage' = stage
       ELSE IF stage < 3
       THEN Goto("copy_start") /\ stage' = stage + 1
       ELSE Goto("write_start") /\ stage' = stage
    /\ UNCHANGED <<env, fs, marker, attempt, processes, calls>>
    /\ UNCHANGED logVars

(***************************************************************************)
(* syncToR2: the completion marker.                                        *)
(***************************************************************************)
\* startProcess(date -Iseconds > .last-sync), waitForProcess(writeProc, 15000);
\* the redirection takes effect on the mount or does not
WriteStart ==
    /\ pc = "write_start"
    /\ \/ \E p \in NewProcs("write", <<>>) : \E m \in {marker, MarkerNew} :
            /\ marker' = m
            /\ Await(p, "write_wait", TIMESTAMP_TIMEOUT_MS, DEFAULT_POLL_INTERVAL_MS)
       \/ /\ calls' = Append(calls, Call("write", "rejected"))
          /\ marker' = marker
          /\ Finish(ResSyncError)
    /\ UNCHANGED <<env, fs, attempt, stage, processes>>
    /\ UNCHANGED logVars

\* startProcess(cat .last-sync loop), waitForProcess(timestampProc, 15000)
ReadStart ==
    /\ pc = "read_start"
    /\ \/ \E p \in NewProcs("read", ReadOutput(marker)) :
            Await(p, "read_wait", TIMESTAMP_TIMEOUT_MS, DEFAULT_POLL_INTERVAL_MS)
       \/ /\ calls' = Append(calls, Call("read", "rejected"))
          /\ Finish(ResSyncError)
    /\ UNCHANGED <<env, fs, marker, attempt, stage, processes>>
    /\ UNCHANGED logVars

\* a wait of the marker write or read rejected: the outer catch
SyncErrorCatch ==
    /\ pc = "sync_error"
    /\ Finish(ResSyncError)
    /\ UNCHANGED <<env, fs, marker, attempt, stage, processes, calls>>
    /\ UNCHANGED logVars

\* timestampProc.getLogs(): it rejects (the outer catch), or resolves with
\* the output or a lagging empty buffer
ReadLogs ==
    /\ pc = "read_logs"
    /\ \/ Finish(ResSyncError)
       \/ /\ \E got \in {proc.out, <<>>} : stdout' = got
          /\ pc' = "read_result"
          /\ UNCHANGED <<proc, timeoutMs, pollIntervalMs, maxAttempts,
                         attempts, polls, result>>
    /\ UNCHANGED <<env, fs, marker, attempt, stage, processes, calls>>
    /\ UNCHANGED logVars

\* trim, lastSync, the shape check
ReadResult ==
    /\ pc = "read_result"
    /\ LET out == Trim(stdout)
           lastSync == LastSyncOf(out)
       IN IF lastSync # <<>> /\ MatchesDateRegex(lastSync)
          THEN Finish(ResSuccess(lastSync))
          ELSE Goto("diag_start")
    /\ UNCHANGED <<env, fs, marker, attempt, stage, processes, calls>>
    /\ UNCHANGED logVars

\* proc.getLogs() of the first copy pass, then startProcess(diagnostics) and
\* waitForProcess(diagProc, 5000, 200)
DiagStart ==
    /\ pc = "diag_start"
    /\ \/ /\ calls' = calls
          /\ Finish(ResSyncError)
       \/ /\ calls' = Append(calls, Call("diag", "rejected"))
          /\ Finish(ResSyncError)
       \/ \E p \in NewProcs("diag", <<>>) :
            Await(p, "diag_wait", PROBE_TIMEOUT_MS, FAST_POLL_INTERVAL_MS)
    /\ UNCHANGED <<env, fs, marker, attempt, stage, processes>>
    /\ UNCHANGED logVars

\* diagProc.getLogs() (a rejection is caught), then the failure result
DiagLogs ==
    /\ pc = "diag_logs"
    /\ Finish(ResMarkerUnverified)
    /\ UNCHANGED <<env, fs, marker, attempt, stage, processes, calls>>
    /\ UNCHANGED logVars

Next ==
    \/ ConfigGate
    \/ ProbeStart
    \/ ProbeLogs
    \/ ProbeResult
    \/ UnmountStart
    \/ MountBucket
    \/ DedupList
    \/ DedupFind
    \/ VerifyStart
    \/ VerifyPoll
    \/ VerifyDecide
    \/ CopyStart
    \/ CopyTimeout
    \/ CopyCheck
    \/ WriteStart
    \/ ReadStart
    \/ SyncErrorCatch
    \/ ReadLogs
    \/ ReadResult
    \/ DiagStart
    \/ DiagLogs
    \/ WaitPoll
    \/ WaitReturn
    \/ ProcStep

Spec == Init /\ [][Next]_vars

\* the steps of the run itself: every await of syncToR2, mountR2Storage and
\* waitForProcess resolves or rejects, and the code after it runs; the
\* sandbox's processes are free never to settle
RunSteps ==
    \/ ConfigGate
    \/ ProbeStart
    \/ ProbeLogs
    \/ ProbeResult
    \/ UnmountStart
    \/ MountBucket
    \/ DedupList
    \/ DedupFind
    \/ VerifyStart
    \/ VerifyPoll
    \/ VerifyDecide
    \/ CopyStart
    \/ CopyTimeout
    \/ CopyCheck
    \/ WriteStart
    \/ ReadStart
    \/ SyncErrorCatch
    \/ ReadLogs
    \/ ReadResult
    \/ DiagStart
    \/ DiagLogs
    \/ WaitPoll
    \/ WaitReturn

RunSpec == Init /\ [][Next]_vars /\ WF_vars(RunSteps)

(***************************************************************************)
(* A bare call waitForProcess(proc, timeoutMs, pollIntervalMs).            *)
(***************************************************************************)
WaitInit ==
    /\ env = [c \in Credentials |-> TRUE]
    /\ fs = [configExists |-> TRUE, localNonEmpty |-> TRUE,
             remoteNonEmpty |-> TRUE]
    /\ marker = NoMarker
    /\ pc = "wait"
    /\ attempt = 0
    /\ stage = 0
    /\ proc \in NewProcs("handle", <<>>)
    /\ timeoutMs \in 1..MaxTimeoutMs
    /\ pollIntervalMs \in 1..MaxPollMs
    /\ maxAttempts = MaxAttemptsOf(timeoutMs, pollIntervalMs)
    /\ attempts = 0
    /\ processes = {}
    /\ stdout = <<>>
    /\ polls = 0
    /\ calls = <<>>
    /\ result = NoResult
    /\ events = <<>>
    /\ console = <<>>

WaitNext == WaitPoll \/ WaitReturn \/ ProcStep

\* the event loop runs the timers and continuations of the wait
WaitSpec ==
    WaitInit /\ [][WaitNext]_vars /\ WF_vars(WaitPoll) /\ WF_vars(WaitReturn)

(***************************************************************************)
(* Two invocations of syncToR2 on one sandbox, from the dedup check on     *)
(* (both configured, the mount confirmed).  pc, stage and result hold one  *)
(* value per invocation; processes is the sandbox's process list, each     *)
(* entry with the invocation and copy pass that started it.  The preflight *)
(* and the marker phase are one step each.                                 *)
(***************************************************************************)
Invocations == {1, 2}

\* the entry of the process list of copy pass st of invocation i
CopyEntry(i, st, status) ==
    [id |-> <<i, st>>, status |-> status, exitCode |-> NoExit,
     rsync |-> TRUE, mountPath |-> TRUE]

DualInit ==
    /\ env = [c \in Credentials |-> TRUE]
    /\ fs = [configExists |-> TRUE, localNonEmpty |-> TRUE,
             remoteNonEmpty |-> TRUE]
    /\ marker = NoMarker
    /\ pc = [i \in Invocations |-> "dedup"]
    /\ attempt = 0
    /\ stage = [i \in Invocations |-> 0]
    /\ proc = NoProc
    /\ timeoutMs = 0
    /\ pollIntervalMs = 0
    /\ maxAttempts = 0
    /\ attempts = 0
    /\ processes = {}
    /\ stdout = <<>>
    /\ polls = 0
    /\ calls = <<>>
    /\ result = [i \in Invocations |-> NoResult]
    /\ events = <<>>
    /\ console = <<>>

DualFrame ==
    UNCHANGED <<env, fs, marker, attempt, proc, timeoutMs, pollIntervalMs,
                maxAttempts, attempts, stdout, polls, calls, events, console>>

DualReturn(i, r) ==
    /\ pc' = [pc EXCEPT ![i] = "done"]
    /\ result' = [result EXCEPT ![i] = r]

DualGoto(i, at) ==
    /\ pc' = [pc EXCEPT ![i] = at]
    /\ result' = result

\* checkForActiveRsync and the skip: listProcesses resolves with the
\* sandbox's list, or rejects and counts as "none found"
DualDedup(i) ==
    /\ pc[i] = "dedup"
    /\ \/ /\ calls' = Append(calls, Call("listProcesses", "ok"))
          /\ IF checkForActiveRsync(processes)
             THEN DualReturn(i, ResSkipped)
             ELSE DualGoto(i, "verify_start")
       \/ /\ calls' = Append(calls, Call("listProcesses", "rejected"))
          /\ DualGoto(i, "verify_start")
    /\ UNCHANGED <<stage, processes>>
    /\ UNCHANGED <<env, fs, marker, attempt, proc, timeoutMs, pollIntervalMs,
                   maxAttempts, attempts, stdout, polls>>
    /\ UNCHANGED logVars

\* the preflight: it passes, or the invocation returns a failure
DualVerify(i) ==
    /\ pc[i] = "verify_start"
    /\ \/ DualGoto(i, "copy_start") /\ stage' = [stage EXCEPT ![i] = 1]
       \/ \E r \in {ResSourceMissing, ResWorkspaceEmpty, ResVerifyFailed} :
             DualReturn(i, r) /\ stage' = stage
    /\ UNCHANGED processes
    /\ DualFrame

\* startProcess(rsync ...): the process enters the sandbox's list
DualCopyStart(i) ==
    /\ pc[i] = "copy_start"
    /\ \/ \E status \in ActiveStatuses :
            /\ processes' = processes \cup {CopyEntry(i, stage[i], status)}
            /\ DualGoto(i, "copy_wait")
       \/ DualReturn(i, ResSyncError) /\ processes' = processes
    /\ UNCHANGED stage
    /\ DualFrame

\* the sandbox moves a listed process on
DualProcStep(i) ==
    /\ \E p \in processes : \E status \in {"running"} \cup SettledStatuses :
          /\ p.id[1] = i
          /\ p.status \in ActiveStatuses
          /\ p.status = "running" => status # "running"
          /\ processes' = (processes \ {p}) \cup {[p EXCEPT !.status = status]}
    /\ UNCHANGED <<pc, stage, result>>
    /\ DualFrame

\* waitForProcess on the copy pass resolves: ensureRsyncSuccess, then the
\* next pass or the marker
DualCopyCheck(i) ==
    /\ pc[i] = "copy_wait"
    /\ \E p \in processes :
          /\ p.id = <<i, stage[i]>>
          /\ ~IsActive(p.status)
          /\ IF ensureRsyncSuccess(p)
             THEN DualReturn(i, ResRsyncFailed) /\ stage' = stage
             ELSE IF stage[i] < 3
             THEN DualGoto(i, "copy_start") /\ stage' = [stage EXCEPT ![i] = @ + 1]
             ELSE DualGoto(i, "write_start") /\ stage' = stage
    /\ UNCHANGED processes
    /\ DualFrame

\* waitForProcess on the copy pass rejects: bestEffortKill, which ends the
\* process or does not, then the outer catch
DualCopyTimeout(i) ==
    /\ pc[i] = "copy_wait"
    /\ \E p \in processes : \E status \in {p.status, "killed"} :
          /\ p.id = <<i, stage[i]>>
          /\ IsActive(p.status)
          /\ processes' = (processes \ {p}) \cup {[p EXCEPT !.status = status]}
    /\ DualReturn(i, ResSyncError)
    /\ UNCHANGED stage
    /\ DualFrame

\* the marker write, read-back and shape check
DualMarker(i) ==
    /\ pc[i] = "write_start"
    /\ \E r \in {ResSuccess(Trim(MarkerNew)), ResMarkerUnverified, ResSyncError} :
          DualReturn(i, r)
    /\ UNCHANGED <<stage, processes>>
    /\ DualFrame

DualNext ==
    \E i \in Invocations :
        \/ DualDedup(i)
        \/ DualVerify(i)
        \/ DualCopyStart(i)
        \/ DualProcStep(i)
        \/ DualCopyCheck(i)
        \/ DualCopyTimeout(i)
        \/ DualMarker(i)

DualSpec == DualInit /\ [][DualNext]_vars

(***************************************************************************)
(* createSyncLogger and withBundle: the log of one run of syncToR2.        *)
(***************************************************************************)
EVENT_CAP == 60

DebugFlags == {"DEBUG_ROUTES", "DEV_MODE"}

\* env.DEBUG_ROUTES === 'true' || env.DEV_MODE === 'true'
isDebugEnabled(e) == e["DEBUG_ROUTES"] \/ e["DEV_MODE"]

\* a cap that keeps the oldest n events
SliceLast_KeepsOldest(evs, n) ==
    SubSeq(evs, 1, IF Len(evs) > n THEN n ELSE Len(evs))

\* evs.slice(-n)
SliceLast(evs, n) ==
    SubSeq(evs, IF Len(evs) > n THEN Len(evs) - n + 1 ELSE 1, Len(evs))

\* a line written with console.log: that of one event, or the bundle
EventLine(e) == [event |-> e.event, finalResult |-> NoResult, events |-> <<>>]
BundleLine(finalResult, capped) ==
    [event |-> "bundle", finalResult |-> finalResult, events |-> capped]

\* the results syncToR2 hands to withBundle
SyncResults ==
    {ResNotConfigured, ResMountFailed, ResSkipped, ResSourceMissing,
     ResWorkspaceEmpty, ResVerifyFailed, ResRsyncFailed, ResMarkerUnverified,
     ResSyncError, ResSuccess(Trim(MarkerNew))}

\* flushBundle(finalResult)
flushBundle(finalResult) ==
    /\ console' = IF isDebugEnabled(env)
                  THEN Append(console,
                           BundleLine(finalResult, SliceLast(events, EVENT_CAP)))
                  ELSE console
    /\ events' = events

LogFrame ==
    UNCHANGED <<env, fs, marker, attempt, stage, proc, timeoutMs,
                pollIntervalMs, maxAttempts, attempts, processes, stdout,
                polls, calls>>

LogInit ==
    /\ env \in {e \in [Credentials \cup DebugFlags -> BOOLEAN] : IsConfigured(e)}
    /\ fs = [configExists |-> TRUE, localNonEmpty |-> TRUE,
             remoteNonEmpty |-> TRUE]
    /\ marker = NoMarker
    /\ pc = "run"
    /\ attempt = 0
    /\ stage = 0
    /\ proc = NoProc
    /\ timeoutMs = 0
    /\ pollIntervalMs = 0
    /\ maxAttempts = 0
    /\ attempts = 0
    /\ processes = {}
    /\ stdout = <<>>
    /\ polls = 0
    /\ calls = <<>>
    /\ result = NoResult
    /\ events = <<>>
    /\ console = <<>>

\* logger.log(event, data): the event is pushed, t being its elapsed time,
\* and written as a line of its own when debugging is enabled
LoggerLog ==
    /\ pc = "run"
    /\ Len(events) < MaxEvents
    /\ LET e == [t |-> Len(events), event |-> "event"]
       IN /\ events' = Append(events, e)
          /\ console' = IF isDebugEnabled(env)
                        THEN Append(console, EventLine(e))
                        ELSE console
    /\ UNCHANGED <<pc, result>>
    /\ LogFrame

\* return withBundle(result): flushBundle(result), then the return
withBundle ==
    /\ pc = "run"
    /\ \E r \in SyncResults :
          /\ flushBundle(r)
          /\ result' = r
    /\ pc' = "done"
    /\ LogFrame

\* an await outside the try rejects: syncToR2 rejects, nothing is flushed
LoggerReject ==
    /\ pc = "run"
    /\ pc' = "thrown"
    /\ UNCHANGED <<result, events, console>>
    /\ LogFrame

LogNext == LoggerLog \/ withBundle \/ LoggerReject

LogSpec == LogInit /\ [][LogNext]_vars

(***************************************************************************)
(* Vocabulary of the properties, read off the history.                     *)
(***************************************************************************)
IsStartProcess(c) == c.op \in ProcessKinds

\* the startProcess calls of the invocation, in their order
StartedKinds ==
    LET started == SelectSeq(calls, IsStartProcess)
    IN [i \in 1..Len(started) |-> started[i].op]

\* some call of one of the kinds was made
Issued(kinds) == \E i \in 1..Len(calls) : calls[i].op \in kinds

\* a text that begins with four digits, '-', two digits, '-', two digits
DateShaped(s) ==
    /\ Len(s) >= 10
    /\ LET shape == <<"d", "d", "d", "d", "-", "d", "d", "-", "d", "d">>
       IN \A i \in 1..10 :
             IF shape[i] = "d" THEN s[i] \in Digits ELSE s[i] = shape[i]

\* the marker read was started and the wait on it resolved
ReadBack == \E i \in 1..Len(calls) : calls[i] = Call("read", "settled")

Returned == pc = "done"

(***************************************************************************)
(* C1                                                                      *)
(***************************************************************************)
\* C1 as stated: every result with success=true is returned only after the
\* invocation read the completion marker back and found its value date-like.
C1_SuccessOnlyAfterReadBack ==
    (Returned /\ result.success) => (ReadBack /\ DateShaped(result.lastSync))

\* C1, with the skip: a result with success=true is either the dedup skip
\* (details 'Skipped: another rsync appears to be running', no lastSync,
\* returned right after listProcesses, no verify, copy or marker process
\* started) or is returned only after the marker was read back, lastSync
\* being the trimmed content read and date-like.
C1_SuccessIsSkipOrReadBack ==
    (Returned /\ result.success) =>
        \/ /\ result = ResSkipped
           /\ calls[Len(calls)].op = "listProcesses"
           /\ ~Issued({"verify", "diag"} \cup ReplicationKinds)
        \/ /\ ReadBack
           /\ calls[Len(calls)].op = "read"
           /\ result.lastSync = Trim(ReadOutput(marker))
           /\ DateShaped(result.lastSync)
           /\ result.details = Absent

C1_Witness ==
    /\ Returned /\ result.success
    /\ ReadBack
    /\ result.lastSync = Trim(MarkerNew)

(***************************************************************************)
(* C2                                                                      *)
(***************************************************************************)
LocalEmptyRemoteNot ==
    fs.configExists /\ fs.remoteNonEmpty /\ ~fs.localNonEmpty

\* C2: with the remote workspace non-empty and the local one empty, no copy
\* pass is ever started, and whenever the log polls end with some output
\* captured (all of it, or a part) the invocation returns the failure
\* 'Sync aborted: local workspace appears empty'.
C2_AbortsOnEmptyLocalWorkspace ==
    /\ [](LocalEmptyRemoteNot => ~Issued(CopyKinds))
    /\ [][(/\ LocalEmptyRemoteNot
           /\ pc = "verify_poll" /\ pc' # "verify_poll"
           /\ stdout # <<>>)
          => (pc' = "done" /\ result' = ResWorkspaceEmpty)]_vars

(***************************************************************************)
(* C3                                                                      *)
(***************************************************************************)
CapturedMissing == \E i \in 1..Len(stdout) : stdout[i] = "__MISSING__"

\* C3: when the captured preflight output holds __MISSING__ the invocation
\* returns the failure 'Sync aborted: source missing openclaw.json' at once,
\* and an invocation that returned it started no copy pass, marker write or
\* marker read.
C3_MissingSourceAborts ==
    /\ [][(pc = "verify_poll" /\ pc' # "verify_poll" /\ CapturedMissing)
          => (/\ pc' = "done"
              /\ result' = ResSourceMissing
              /\ calls' = calls)]_vars
    /\ []((pc = "verify_poll" /\ CapturedMissing) => ~Issued(ReplicationKinds))
    /\ []((Returned /\ result = ResSourceMissing) => ~Issued(ReplicationKinds))

C3_Witness ==
    /\ Returned /\ result = ResSourceMissing
    /\ ~fs.configExists
    /\ Issued({"verify"})

(***************************************************************************)
(* C4                                                                      *)
(***************************************************************************)
IsReplication(c) == c.op \in ReplicationKinds
ReplicationCalls == SelectSeq(calls, IsReplication)
ReplicationOrder == <<"openclaw", "workspace", "skills", "write", "read">>

\* C4 as stated: the replication processes start in the order config copy,
\* workspace copy, skills copy, marker write, marker read, and when one
\* starts the wait on every earlier one has resolved and that one succeeded.
C4_EachStageGatedOnSuccess ==
    LET r == ReplicationCalls
    IN /\ Len(r) <= Len(ReplicationOrder)
       /\ \A j \in 1..Len(r) :
             /\ r[j].op = ReplicationOrder[j]
             /\ \A i \in 1..(j - 1) : r[i].res = "settled"

\* C4, with the marker write ungated: the replication processes start in the
\* fixed order, one at a time; when one starts the wait on every earlier one
\* has resolved, every earlier copy pass succeeded, and the marker write
\* settled, failed or not.
C4_StagesInOrderCopiesGated ==
    LET r == ReplicationCalls
    IN /\ Len(r) <= Len(ReplicationOrder)
       /\ \A j \in 1..Len(r) :
             /\ r[j].op = ReplicationOrder[j]
             /\ \A i \in 1..(j - 1) :
                   \/ r[i].res = "settled"
                   \/ r[i].op = "write" /\ r[i].res = "failed"

C4_Witness ==
    /\ Returned
    /\ Len(ReplicationCalls) = 5
    /\ ReplicationCalls[4] = Call("write", "failed")
    /\ ReplicationCalls[5] = Call("read", "settled")

(***************************************************************************)
(* C5                                                                      *)
(***************************************************************************)
\* C5: no failure of a collaborator makes the promise of syncToR2 reject.
C5_NeverRejects == pc # "thrown"

(***************************************************************************)
(* C6                                                                      *)
(***************************************************************************)
CredentialAbsent == \E c \in Credentials : ~env[c]

\* C6: with a credential absent the invocation makes no call on the sandbox
\* and returns the failure 'R2 storage is not configured'.
C6_NotConfiguredDoesNothing ==
    CredentialAbsent =>
        /\ calls = <<>>
        /\ pc \in {"start", "done"}
        /\ Returned => result = ResNotConfigured

C6_Witness ==
    /\ Returned
    /\ env = [c \in Credentials |-> c # "CF_ACCOUNT_ID"]
    /\ result.error = ErrNotConfigured

(***************************************************************************)
(* C7                                                                      *)
(***************************************************************************)
\* C7: a copy pass that settled with status 'failed' or an exit code other
\* than 0 is the last call of the invocation, which returns the failure
\* 'Sync failed'.
C7_FailedCopyEndsRun ==
    \A i \in 1..Len(calls) :
        (calls[i].op \in CopyKinds /\ calls[i].res = "failed") =>
            /\ i = Len(calls)
            /\ pc \in {"copy_check", "done"}
            /\ Returned => (~result.success /\ result.error = ErrSyncFailed)

C7_Witness ==
    /\ Returned /\ calls # <<>>
    /\ calls[Len(calls)] = Call("workspace", "failed")
    /\ result.error = ErrSyncFailed

(***************************************************************************)
(* C8                                                                      *)
(***************************************************************************)
ListsActiveRsync ==
    \E p \in processes :
        p.status \in {"starting", "running"} /\ p.rsync /\ p.mountPath

\* C8: after listProcesses resolved, the invocation returns the skip result
\* (success=true, details 'Skipped: another rsync appears to be running')
\* without a further call exactly when the list holds an active process
\* whose command names rsync and the mount path, and goes on to the
\* preflight otherwise; a run that returned the skip started no preflight,
\* copy or marker process.
C8_SkipExactlyOnActiveRsync ==
    /\ [][pc = "dedup_find" =>
            IF ListsActiveRsync
            THEN pc' = "done" /\ result' = ResSkipped /\ calls' = calls
            ELSE pc' = "verify_start" /\ result' = result]_vars
    /\ []((Returned /\ result.details = SkippedDetails) =>
            /\ result.success
            /\ ListsActiveRsync
            /\ ~Issued({"verify", "diag"} \cup ReplicationKinds))

C8_Witness ==
    /\ Returned /\ result = ResSkipped
    /\ \E p \in processes : p.status = "starting"
    /\ Issued({"listProcesses"})
    /\ ~Issued({"verify"})

(***************************************************************************)
(* C9                                                                      *)
(***************************************************************************)
\* every call so far ended well: the probe found the mount, the waits
\* resolved on processes that did not fail, listProcesses resolved
CleanCalls == \A i \in 1..Len(calls) : calls[i].res \in {"mounted", "settled", "ok"}

SevenStarts ==
    <<"probe", "verify", "openclaw", "workspace", "skills", "write", "read">>

\* C9: when every call ended well and the marker read delivers a date-like
\* text, the invocation has started exactly the seven processes probe,
\* verify, config copy, workspace copy, skills copy, marker write, marker
\* read, in this order, and returns success=true with lastSync the text
\* read back.
C9_HappyPath ==
    [][(pc = "read_result" /\ CleanCalls /\ DateShaped(Trim(stdout)))
       => (/\ pc' = "done"
           /\ result' = ResSuccess(Trim(stdout))
           /\ calls' = calls
           /\ StartedKinds = SevenStarts)]_vars

C9_Witness ==
    /\ Returned /\ CleanCalls
    /\ StartedKinds = SevenStarts
    /\ result = ResSuccess(Trim(MarkerOld))

(***************************************************************************)
(* C10                                                                     *)
(***************************************************************************)
\* the least n with n * b >= a
CeilingOf(a, b) == CHOOSE n \in 0..a : n * b >= a /\ (n = 0 \/ (n - 1) * b < a)

\* C10: a call of waitForProcess ends; it ends resolved only on a handle
\* that is no longer active, and on an active handle it ends rejected, after
\* exactly ceil(timeoutMs / pollIntervalMs) poll intervals, which add up to
\* timeoutMs or more.
C10_TimeoutAfterCeilIntervals ==
    /\ [](pc = "wait_resolved" => proc.status \notin {"starting", "running"})
    /\ [](pc = "wait_rejected" =>
            /\ proc.status \in {"starting", "running"}
            /\ attempts = CeilingOf(timeoutMs, pollIntervalMs)
            /\ attempts * pollIntervalMs >= timeoutMs)
    /\ <>(pc # "wait")

C10_Witness ==
    /\ pc = "wait_rejected"
    /\ timeoutMs = 5 /\ pollIntervalMs = 3
    /\ attempts = 2

(***************************************************************************)
(* C11                                                                     *)
(***************************************************************************)
MountKinds == {"probe", "unmount", "mountBucket"}

\* C11: mountR2Storage never throws: whenever a probe, an unmount or a mount
\* operation failed (startProcess or mountBucket rejecting), nothing is
\* raised, and an invocation that ended on such a failure returned the
\* result of a mount that gave false.
C11_MountNeverThrows ==
    \A i \in 1..Len(calls) :
        (calls[i].op \in MountKinds /\ calls[i].res \in {"rejected", "error"}) =>
            /\ pc # "thrown"
            /\ (Returned /\ i = Len(calls)) => result = ResMountFailed

(***************************************************************************)
(* C12                                                                     *)
(***************************************************************************)
\* the captured type begins with 'fuse'
ReportsFuse(s) ==
    Len(s) >= 4 /\ s[1] = "f" /\ s[2] = "u" /\ s[3] = "s" /\ s[4] = "e"

\* C12: when the initial probe captured a type beginning with 'fuse',
\* mountR2Storage returns true at once (syncToR2 goes on to the dedup
\* check), and no mountBucket call and no unmount process follow in the
\* invocation.
C12_MountedProbeReturnsTrue ==
    /\ [][(pc = "probe_result" /\ Len(calls) = 1 /\ ReportsFuse(stdout))
          => (/\ pc' = "dedup"
              /\ calls' = <<Call("probe", "mounted")>>)]_vars
    /\ []((calls # <<>> /\ calls[1] = Call("probe", "mounted"))
            => ~Issued({"mountBucket", "unmount"}))

C12_Witness ==
    /\ pc = "dedup"
    /\ calls = <<Call("probe", "mounted")>>

(***************************************************************************)
(* C13                                                                     *)
(***************************************************************************)
\* C13: the call that follows an unresponsive probe is an unmount, never a
\* mountBucket, and until it is made the controller stands before it.
C13_UnmountAfterUnresponsive ==
    \A i \in 1..Len(calls) :
        calls[i] = Call("probe", "unresponsive") =>
            IF i < Len(calls)
            THEN calls[i + 1].op = "unmount"
            ELSE pc = "unmount"

C13_Witness ==
    \E i \in 1..Len(calls) :
        /\ i + 2 <= Len(calls)
        /\ calls[i] = Call("probe", "unresponsive")
        /\ calls[i + 1] = Call("unmount", "returned")
        /\ calls[i + 2].op = "mountBucket"

(***************************************************************************)
(* C14                                                                     *)
(***************************************************************************)
\* C14: a first mountBucket failure with the 'path already in use'
\* signature is followed by a probe, and when that probe reports mounted
\* mountR2Storage returns true: the next call is listProcesses, and no
\* mountBucket call and no unmount follow.
C14_InUseThenMountedReturnsTrue ==
    \A i \in 1..Len(calls) :
        (/\ calls[i] = Call("mountBucket", "inUse")
         /\ \A j \in 1..(i - 1) : calls[j].op # "mountBucket") =>
            /\ i = Len(calls) => pc = "probe"
            /\ i < Len(calls) => calls[i + 1].op = "probe"
            /\ (i < Len(calls) /\ calls[i + 1].res = "mounted") =>
                  /\ \A j \in (i + 2)..Len(calls) :
                        calls[j].op \notin {"mountBucket", "unmount"}
                  /\ IF i + 1 = Len(calls)
                     THEN pc = "dedup"
                     ELSE calls[i + 2].op = "listProcesses"

C14_Witness ==
    \E i \in 1..Len(calls) :
        /\ i + 2 <= Len(calls)
        /\ calls[i] = Call("mountBucket", "inUse")
        /\ calls[i + 1] = Call("probe", "mounted")
        /\ calls[i + 2].op = "listProcesses"

(***************************************************************************)
(* C15                                                                     *)
(***************************************************************************)
AfterMountKinds == {"listProcesses", "verify", "diag", "kill"} \cup ReplicationKinds

\* mountR2Storage returned true: its last call is a probe that found the
\* mount, or a mountBucket that resolved
MountConfirmedAt(i) ==
    calls[i] = Call("probe", "mounted") \/ calls[i] = Call("mountBucket", "ok")

\* C15: a call other than those of mountR2Storage is made only after
\* mountR2Storage returned true, and an invocation whose mountR2Storage
\* returned false returns the failure 'Failed to mount R2 storage'.
C15_NothingBeforeMountConfirmed ==
    /\ \A j \in 1..Len(calls) :
          calls[j].op \in AfterMountKinds =>
              \E i \in 1..(j - 1) :
                  /\ MountConfirmedAt(i)
                  /\ \A k \in 1..i : calls[k].op \in MountKinds
    /\ (Returned /\ ~CredentialAbsent
           /\ ~\E i \in 1..Len(calls) : MountConfirmedAt(i))
          => result = [success |-> FALSE, lastSync |-> <<>>,
                       error |-> "Failed to mount R2 storage",
                       details |-> Absent]

C15_Witness ==
    /\ Returned
    /\ calls = <<Call("probe", "not_mounted"), Call("mountBucket", "error")>>
    /\ result.error = ErrMountFailed

(***************************************************************************)
(* C16                                                                     *)
(***************************************************************************)
\* C16: every result with success=false carries an error and a details
\* string.
C16_FailureHasErrorAndDetails ==
    (Returned /\ ~result.success) =>
        (result.error # Absent /\ result.details # Absent)

(***************************************************************************)
(* C17                                                                     *)
(***************************************************************************)
\* a copy pass of invocation i is listed as starting or running
HasActiveCopy(i) ==
    \E p \in processes :
        /\ p.id[1] = i
        /\ p.status \in {"starting", "running"}
        /\ p.rsync /\ p.mountPath

\* C17: an invocation is skipped only by a dedup check made while a copy
\* pass of the other invocation is listed as active; the check binds
\* nothing afterwards (two invocations with active copy passes at once is
\* the state C17_Witness).
C17_SkippedOnlyOnListedActiveCopy ==
    /\ [][\A i \in Invocations :
            (result'[i] = ResSkipped /\ result[i] # ResSkipped) =>
                /\ pc[i] = "dedup" /\ pc'[i] = "done"
                /\ \E j \in Invocations \ {i} : HasActiveCopy(j)
                /\ processes' = processes]_vars
    /\ [](\A i \in Invocations :
            result[i] = ResSkipped =>
                (stage[i] = 0 /\ \A p \in processes : p.id[1] # i))

C17_Witness ==
    /\ \A i \in Invocations : pc[i] = "copy_wait" /\ HasActiveCopy(i)
    /\ \A i \in Invocations : result[i] # ResSkipped

(***************************************************************************)
(* C18                                                                     *)
(***************************************************************************)
\* C18: the call that follows an unmount attempt is a probe; no mountBucket
\* call follows an unmount directly.
C18_ReprobeAfterUnmount ==
    \A i \in 1..Len(calls) :
        (calls[i].op = "unmount" /\ i < Len(calls)) => calls[i + 1].op = "probe"

(***************************************************************************)
(* C19                                                                     *)
(***************************************************************************)
TimedOutAt(i) == calls[i].res \in {"timeout", "unresponsive"}

\* C19: a wait that timed out is followed by the kill of its process: the
\* next entry of the history is the kill, and the invocation does not
\* return before it (a copy pass whose handle has no kill method apart).
C19_KillAfterEveryTimeout ==
    \A i \in 1..Len(calls) :
        TimedOutAt(i) =>
            /\ i < Len(calls) => calls[i + 1].op = "kill"
            /\ (Returned /\ calls[i].op \notin CopyKinds) => i < Len(calls)

(***************************************************************************)
(* C20                                                                     *)
(***************************************************************************)
\* C20: when the wait on a copy pass timed out, the next step is the kill
\* of that process (nothing being called when the handle has no kill
\* method); after it the invocation has returned the failure 'Sync error',
\* whether the kill resolved or rejected, and no other call follows.
C20_CopyTimeoutKillsAndFails ==
    \A i \in 1..Len(calls) :
        (calls[i].op \in CopyKinds /\ calls[i].res = "timeout") =>
            IF i = Len(calls)
            THEN pc = "copy_timeout"
            ELSE /\ i + 1 = Len(calls)
                 /\ calls[i + 1].op = "kill"
                 /\ Returned
                 /\ ~result.success
                 /\ result.error = "Sync error"

C20_Witness ==
    /\ Returned /\ ~result.success
    /\ Len(calls) >= 2
    /\ calls[Len(calls) - 1] = Call("workspace", "timeout")
    /\ calls[Len(calls)] = Call("kill", "rejected")

(***************************************************************************)
(* C21                                                                     *)
(***************************************************************************)
CountOf(op) == Cardinality({i \in 1..Len(calls) : calls[i].op = op})

StateOfCaptured(s) == IF ReportsFuse(s) THEN "mounted" ELSE "not_mounted"

\* C22: a probe whose wait is left with the process still active reports
\* unresponsive and nothing is raised; a probe is unresponsive in no other
\* case; when the wait resolved the probe reports mounted for a captured
\* type that begins with 'fuse', and not mounted for an empty capture, the
\* error sentinel or another type.
C22_ProbeClassification ==
    /\ [][(pc = "probe_wait" /\ pc' # "probe_wait") =>
            IF proc.status \in {"starting", "running"}
            THEN /\ calls'[Len(calls')] = Call("probe", "unresponsive")
                 /\ pc' = "unmount"
            ELSE /\ calls'[Len(calls')] = Call("probe", "settled")
                 /\ pc' = "probe_logs"]_vars
    /\ [][pc = "probe_result" =>
            calls'[Len(calls')] = Call("probe", StateOfCaptured(stdout))]_vars
    /\ [][\A i \in 1..Len(calls') :
            (/\ calls'[i] = Call("probe", "unresponsive")
             /\ (i > Len(calls) \/ calls[i] # calls'[i])) =>
                (pc = "probe_wait" /\ proc.status \in {"starting", "running"})]_vars

C22_Witness ==
    /\ pc = "mount"
    /\ calls = <<Call("probe", "not_mounted")>>

(***************************************************************************)
(* C23                                                                     *)
(***************************************************************************)
\* C23: waitForProcess resolves only on a status outside {starting,
\* running}; a handle found settled is resolved at once, before the first
\* sleep as well as after the last one; and the steps of the wait leave the
\* handle and the history of calls as they are.
C23_ResolvesOnlyWhenSettled ==
    /\ [](pc = "wait_resolved" => proc.status \notin {"starting", "running"})
    /\ [][(pc = "wait" /\ proc.status \notin {"starting", "running"}) =>
            (pc' = "wait_resolved" /\ attempts' = attempts)]_vars
    /\ [][(pc = "wait" /\ (pc' # pc \/ attempts' # attempts)) =>
            (proc' = proc /\ calls' = calls /\ stdout' = stdout)]_vars

C23_Witness ==
    /\ pc = "wait_resolved"
    /\ attempts = maxAttempts /\ attempts >= 2
    /\ proc.status = "completed"

(***************************************************************************)
(* C24                                                                     *)
(***************************************************************************)
\* C24: once the wait on a copy pass resolved, the pass counts as failed
\* exactly when the status is 'failed' or the exit code is a number other
\* than 0: then the run returns 'Sync failed' and starts nothing; in every
\* other case (also a settled handle without exit code) the next stage is
\* the one the run goes on to.
C24_CopyFailedExactlyOnStatusOrExitCode ==
    [][pc = "copy_check" =>
        IF proc.status = "failed" \/ (Len(proc.exitCode) = 1 /\ proc.exitCode # <<0>>)
        THEN /\ pc' = "done"
             /\ ~result'.success /\ result'.error = "Sync failed"
             /\ calls' = calls
        ELSE /\ result' = result
             /\ calls' = calls
             /\ IF stage < 3
                THEN pc' = "copy_start" /\ stage' = stage + 1
                ELSE pc' = "write_start"]_vars

C24_Witness ==
    /\ pc = "copy_start" /\ stage = 2
    /\ calls # <<>>
    /\ calls[Len(calls)] = Call("openclaw", "settled")

(***************************************************************************)
(* C25                                                                     *)
(***************************************************************************)
\* a text without the white space at its two ends
Trimmed(s) ==
    LET inked == {i \in 1..Len(s) : s[i] \notin {" ", "\n", "\t", "\r"}}
    IN IF inked = {}
       THEN <<>>
       ELSE SubSeq(s, CHOOSE i \in inked : \A j \in inked : i <= j,
                      CHOOSE i \in inked : \A j \in inked : i >= j)

\* the read output that proves the marker
ProvesMarker(s) == s # <<>> /\ s # MissingSentinel /\ DateShaped(s)

\* C25: with the output of the marker read in hand, the run returns
\* success = true and lastSync = the trimmed output exactly when that
\* trimmed output is non-empty, is not '__MISSING__' and is date-shaped;
\* in every other case the result it returns is the failure 'Sync failed'.
C25_SuccessExactlyOnDateShapedReadBack ==
    /\ [][pc = "read_result" =>
            IF ProvesMarker(Trimmed(stdout))
            THEN /\ pc' = "done"
                 /\ result' = ResSuccess(Trimmed(stdout))
            ELSE pc' # "done"]_vars
    /\ [][(pc \in {"diag_start", "diag_wait", "diag_logs"} /\ pc' = "done") =>
            (~result'.success /\ result'.error = "Sync failed")]_vars

(***************************************************************************)
(* C26                                                                     *)
(***************************************************************************)
SawLine(lines, l) == \E i \in 1..Len(lines) : lines[i] = l

\* C26: the log-poll loop is left without '__OK__' and without
\* '__MISSING__' in the captured stdout only when its polls are used up, and
\* then the run returns 'Failed to verify source files' and no copy pass is
\* started; a run whose verify wait timed out is not ended with that error
\* when '__OK__' is in the captured stdout.
C26_NoSentinelMeansVerifyFailed ==
    /\ [][(/\ pc = "verify_poll" /\ pc' # "verify_poll"
            /\ ~SawLine(stdout, "__OK__") /\ ~SawLine(stdout, "__MISSING__")) =>
              /\ polls = IF MaxLogPolls < 50 THEN MaxLogPolls ELSE 50
              /\ pc' = "done"
              /\ ~result'.success
              /\ result'.error = "Failed to verify source files"
              /\ calls' = calls]_vars
    /\ [][(/\ pc = "verify_poll" /\ pc' # "verify_poll"
            /\ calls[Len(calls)] = Call("verify", "timeout")
            /\ SawLine(stdout, "__OK__")) =>
              /\ pc' # "thrown"
              /\ result'.error # "Failed to verify source files"
              /\ (pc' = "done" =>
                    /\ SawLine(stdout, "__WORKSPACE_LOCAL_EMPTY__")
                    /\ SawLine(stdout, "__WORKSPACE_REMOTE_NONEMPTY__"))]_vars
    /\ [](result.error = "Failed to verify source files" =>
            ~Issued({"openclaw", "workspace", "skills"}))

C26_Witness ==
    /\ Returned
    /\ result.error = ErrVerifyFailed
    /\ calls # <<>>
    /\ calls[Len(calls)] = Call("verify", "timeout")

(***************************************************************************)
(* C27                                                                     *)
(***************************************************************************)
\* C27: a rejection of listProcesses ends nothing: the run neither returns
\* nor skips on it, and the next call it makes is the start of the
\* preflight verification.
C27_ListFailureGoesOnToPreflight ==
    \A i \in 1..Len(calls) :
        calls[i] = Call("listProcesses", "rejected") =>
            IF i = Len(calls)
            THEN pc = "verify_start" /\ result = NoResult
            ELSE /\ calls[i + 1].op = "verify"
                 /\ Returned => result # ResSkipped

C27_Witness ==
    /\ pc = "copy_start"
    /\ \E i \in 1..Len(calls) : calls[i] = Call("listProcesses", "rejected")

(***************************************************************************)
(* C28                                                                     *)
(***************************************************************************)
\* the diagnostic snapshot is under way: started, awaited or being read
DiagUnderWay == pc \in {"diag_wait", "diag_logs"}

\* what holds of the diagnostic snapshot once it was started
C28_DiagnosticsNeverChangeResult ==
    /\ [][(DiagUnderWay /\ pc' \notin {"diag_wait", "diag_logs"}) =>
            (pc' = "done" /\ ~result'.success /\ result'.error = "Sync failed")]_vars
    /\ [](DiagUnderWay => ReadBack)
    /\ [][(\E i \in 1..Len(calls') : calls'[i].op = "diag" /\ i > Len(calls)) =>
            pc = "diag_start"]_vars

\* C28: a run that could not verify the marker starts the diagnostic
\* snapshot process and reads its output before it returns; a timeout of
\* the diagnostic wait or a failure of its log fetch leaves the result
\* 'Sync failed'; the diagnostic process is started on no other path.
C28_UnverifiedMarkerGathersDiagnostics ==
    /\ [][pc = "diag_start" => pc' = "diag_wait"]_vars
    /\ C28_DiagnosticsNeverChangeResult

(***************************************************************************)
(* C29                                                                     *)
(***************************************************************************)
\* the invocation is over: syncToR2 returned, or mountR2Storage raised
Terminated == pc \in {"done", "thrown"}

\* every process wait in the history ended with the process still active
NothingSettled ==
    \A i \in 1..Len(calls) :
        calls[i].op \in {"probe", "unmount", "verify", "diag", "openclaw",
                         "workspace", "skills", "write", "read"} =>
            calls[i].res \in {"unresponsive", "returned", "timeout"}

\* C29: every invocation terminates, whether or not the processes it starts
\* ever settle: it makes at most fourteen calls of the sandbox, no wait polls
\* more often than its attempts allow, and the log-poll loop stays within
\* its bound.
C29_EveryInvocationTerminates ==
    /\ <>Terminated
    /\ [](Len(calls) <= 14)
    /\ [](attempts <= maxAttempts)
    /\ [](polls <= 50)

C29_Witness ==
    /\ Terminated
    /\ NothingSettled
    /\ Len(calls) >= 5
    /\ calls[1] = Call("probe", "unresponsive")
    /\ calls[Len(calls)] = Call("verify", "timeout")

(***************************************************************************)
(* C30                                                                     *)
(***************************************************************************)
\* C30: a run that returns success = true with a lastSync read the marker
\* its own write put on the mount: the marker file holds this run's
\* timestamp and lastSync is that timestamp, never one left by an earlier
\* run.
C30_SuccessMeansOwnMarker ==
    (Returned /\ result.success /\ result.lastSync # <<>>) =>
        /\ marker = MarkerNew
        /\ result.lastSync = Trimmed(MarkerNew)

(***************************************************************************)
(* C31                                                                     *)
(***************************************************************************)
\* C31: an unmount is started only as the call right after a probe that
\* reported unresponsive; none follows a probe that reported mounted or not
\* mounted, and none is started once a mountBucket call failed without the
\* 'path already in use' signature.
C31_UnmountOnlyAfterUnresponsiveProbe ==
    \A i \in 1..Len(calls) :
        /\ calls[i].op = "unmount" =>
              (i > 1 /\ calls[i - 1] = Call("probe", "unresponsive"))
        /\ (calls[i].op = "probe" /\ calls[i].res \in {"mounted", "not_mounted"}) =>
              (i < Len(calls) => calls[i + 1].op # "unmount")
        /\ calls[i] = Call("mountBucket", "error") =>
              \A j \in (i + 1)..Len(calls) : calls[j].op # "unmount"

C31_Witness ==
    /\ pc = "mount" /\ attempt = 2
    /\ Len(calls) >= 3
    /\ calls[Len(calls) - 2] = Call("mountBucket", "inUse")
    /\ calls[Len(calls) - 1] = Call("probe", "unresponsive")
    /\ calls[Len(calls)] = Call("unmount", "returned")

(***************************************************************************)
(* C32                                                                     *)
(***************************************************************************)
\* the sandbox's list holds a process that is starting or running and whose
\* command names rsync and the mount path
ActiveRsyncListed ==
    \E p \in processes :
        p.status \in {"starting", "running"} /\ p.rsync /\ p.mountPath

\* invocation i makes its dedup check in this step
ChecksDedup(i) == pc[i] = "dedup" /\ pc'[i] # "dedup"

\* C32 as stated: an invocation that makes its dedup check while such a
\* process is in the sandbox's list returns the skipped result, and goes on
\* to replicate only when no such process is in the list.
C32_SkipsWhileActiveRsyncListed ==
    [][\A i \in Invocations :
        ChecksDedup(i) =>
            IF ActiveRsyncListed
            THEN pc'[i] = "done" /\ result'[i] = ResSkipped
            ELSE pc'[i] = "verify_start"]_vars

\* C32: an invocation whose listProcesses call resolved while such a
\* process is in the sandbox's list returns success = true with the Skipped
\* detail and starts no copy pass, for as long as the process stays active
\* (also after the run that started it has returned); an invocation goes on
\* to the preflight and the copy passes only when its listing held no such
\* process or its listProcesses call rejected.
C32_SkipsWhileActiveRsyncIsListedToIt ==
    /\ [][\A i \in Invocations :
            ChecksDedup(i) =>
                IF /\ calls'[Len(calls')] = Call("listProcesses", "ok")
                   /\ ActiveRsyncListed
                THEN /\ pc'[i] = "done"
                     /\ result'[i].success
                     /\ result'[i].details = "Skipped: another rsync appears to be running"
                     /\ processes' = processes
                ELSE pc'[i] = "verify_start" /\ result'[i] = result[i]]_vars
    /\ [](\A i \in Invocations :
            (pc[i] = "done" /\ result[i].details = "Skipped: another rsync appears to be running") =>
                (stage[i] = 0 /\ \A p \in processes : p.id[1] # i))

\* the copy pass of invocation 1 was abandoned active by its timed-out run,
\* and invocation 2 was skipped on it
C32_Witness ==
    /\ pc[1] = "done" /\ result[1].error = ErrSyncError
    /\ HasActiveCopy(1)
    /\ pc[2] = "done" /\ result[2] = ResSkipped

(***************************************************************************)
(* C33                                                                     *)
(***************************************************************************)
FixedErrors ==
    {"R2 storage is not configured", "Failed to mount R2 storage",
     "Sync aborted: source missing openclaw.json",
     "Sync aborted: local workspace appears empty",
     "Failed to verify source files", "Sync failed", "Sync error"}

\* C33: in every result syncToR2 returns, success = true goes with no
\* error, success = false goes with an error that is one of the seven fixed
\* strings, and a lastSync is carried only when success = true.
C33_ResultShape ==
    Returned =>
        /\ result.success => result.error = "absent"
        /\ ~result.success => result.error \in FixedErrors
        /\ result.lastSync # <<>> => result.success

C33_Witness ==
    /\ Returned
    /\ ~result.success /\ result.error = "Sync error"
    /\ result.lastSync = <<>>
    /\ Issued({"write"})

(***************************************************************************)
(* C34                                                                     *)
(***************************************************************************)
\* the first mountBucket call of the invocation is the i-th call
FirstMountAt(i) ==
    /\ calls[i].op = "mountBucket"
    /\ \A j \in 1..(i - 1) : calls[j].op # "mountBucket"

\* C34: when the first mountBucket call fails without the 'path already in
\* use' signature the invocation returns 'Failed to mount R2 storage' with
\* that call as its last one; when it fails with the signature and the
\* re-probe reports not mounted, the invocation returns the same failure
\* with the re-probe as its last call.  Either way one mountBucket call was
\* made, and no unmount and no retry follow the failure.
C34_OtherMountFailuresSurface ==
    \A i \in 1..Len(calls) :
        /\ (FirstMountAt(i) /\ calls[i].res = "error") =>
              /\ i = Len(calls)
              /\ Returned
              /\ ~result.success /\ result.error = "Failed to mount R2 storage"
        /\ (/\ FirstMountAt(i) /\ calls[i].res = "inUse"
            /\ i < Len(calls) /\ calls[i + 1] = Call("probe", "not_mounted")) =>
              /\ i + 1 = Len(calls)
              /\ Returned
              /\ ~result.success /\ result.error = "Failed to mount R2 storage"

C34_Witness ==
    /\ Returned /\ result.error = ErrMountFailed
    /\ CountOf("mountBucket") = 1
    /\ Len(calls) >= 2
    /\ calls[Len(calls) - 1] = Call("mountBucket", "inUse")
    /\ calls[Len(calls)] = Call("probe", "not_mounted")

(***************************************************************************)
(* C35                                                                     *)
(***************************************************************************)
\* verbose diagnostics are enabled
VerboseEnabled == env["DEBUG_ROUTES"] \/ env["DEV_MODE"]

\* the bundled entries among the lines written so far
BundlesFlushed == SelectSeq(console, LAMBDA l : l.event = "bundle")

\* the 60 most recent of the events, in their order
MostRecent60(evs) ==
    LET n == IF Len(evs) < 60 THEN Len(evs) ELSE 60
    IN [i \in 1..n |-> evs[Len(evs) - n + i]]

\* C35: when syncToR2 has returned and verbose diagnostics are enabled,
\* exactly one bundled entry was flushed, and it carries the result returned
\* and the 60 most recent events in their recorded order; with verbose
\* diagnostics disabled no bundled entry is ever flushed; none is flushed
\* before the return; the events are only ever appended to, and the flush
\* leaves them as they are.
C35_BundleFlushedOncePerReturn ==
    /\ [](pc = "done" =>
            IF VerboseEnabled
            THEN BundlesFlushed =
                   <<[event |-> "bundle", finalResult |-> result,
                      events |-> MostRecent60(events)]>>
            ELSE BundlesFlushed = <<>>)
    /\ [](pc # "done" => BundlesFlushed = <<>>)
    /\ [][/\ Len(events') >= Len(events)
          /\ SubSeq(events', 1, Len(events)) = events
          /\ (pc' = "done" => events' = events)]_vars

C35_Witness ==
    /\ pc = "done"
    /\ VerboseEnabled
    /\ Len(events) > 60
    /\ Len(BundlesFlushed) = 1
    /\ Len(BundlesFlushed[1].events) = 60

====
